---------------------------- MODULE Spec2Model ----------------------------
(***************************************************************************)
(* Rent-versus-buy projection engine (calculations.py) driven by the run   *)
(* sequence of app.main: rent projector, buy projector, rent+invest        *)
(* simulator, comparator.                                                  *)
(*                                                                         *)
(* Numbers.  The engine computes on Python numbers.  Here every amount and *)
(* rate is an exact rational [num, den] in lowest terms with den > 0, and  *)
(* +, -, *, /, ** and max are the exact operations; IEEE rounding is not   *)
(* modelled.  Division by zero is the one arithmetic failure Python        *)
(* raises, and it is modelled as the error outcome "ZeroDivisionError".    *)
(***************************************************************************)
EXTENDS Integers, Sequences, FiniteSets, TLC

VARIABLES
    inputs,             \* the inputs dictionary built by main (app.py:105-144)
    pc,                 \* position of main in its run sequence
    run,                \* 1 for the first run on the bundle, 2 for the repeat
    rent_df,            \* main's rent_df, <<>> while not assigned
    monthly_df,         \* the monthly schedule of the last buy projection
    buy_df,             \* main's buy_df, <<>> while not assigned
    rent_invest_df,     \* main's rent_invest_df, <<>> while not assigned
    comparison_result,  \* main's comparison_result, <<>> while not assigned
    banner,             \* which summary banner main showed, "none" before
    err,                \* the exception that ended the run, "none" otherwise
    first               \* what the first run on this bundle produced

vars == <<inputs, pc, run, rent_df, monthly_df, buy_df, rent_invest_df,
          comparison_result, banner, err, first>>

-----------------------------------------------------------------------------
(* Bounds of the model. *)

MaxAnalysisYears == 3
MaxTermYears == 2

-----------------------------------------------------------------------------
(* Exact rational arithmetic. *)

Abs(i) == IF i < 0 THEN -i ELSE i

RECURSIVE Gcd(_, _)
Gcd(a, b) == IF b = 0 THEN a ELSE Gcd(b, a % b)

Rat(n, d) ==
    LET s == IF d < 0 THEN -1 ELSE 1
        g == Gcd(Abs(n), Abs(d))
    IN  [num |-> (s * n) \div g, den |-> (s * d) \div g]

Int2Rat(i) == [num |-> i, den |-> 1]
Zero == Int2Rat(0)
One == Int2Rat(1)

Lcm(a, b) == (a \div Gcd(a, b)) * b

RAdd(x, y) ==
    LET l == Lcm(x.den, y.den)
    IN  Rat(x.num * (l \div x.den) + y.num * (l \div y.den), l)

RNeg(x) == [num |-> -x.num, den |-> x.den]

RSub(x, y) == RAdd(x, RNeg(y))

RMul(x, y) ==
    LET g1 == Gcd(Abs(x.num), y.den)
        g2 == Gcd(Abs(y.num), x.den)
    IN  IF x.num = 0 \/ y.num = 0 THEN Zero
        ELSE [num |-> (x.num \div g1) * (y.num \div g2),
              den |-> (x.den \div g2) * (y.den \div g1)]

\* 1/x, for x # 0
RInv(x) == IF x.num < 0 THEN [num |-> -x.den, den |-> -x.num]
           ELSE [num |-> x.den, den |-> x.num]

\* x / y, for y # 0
RDiv(x, y) == RMul(x, RInv(y))

RLe(x, y) == RSub(x, y).num <= 0
RLt(x, y) == RSub(x, y).num < 0
RMax(x, y) == IF RLe(x, y) THEN y ELSE x

\* x ** k for an integer k and x # 0 (Python's float power)
RECURSIVE RPowNat(_, _)
RPowNat(x, k) == IF k = 0 THEN One ELSE RMul(x, RPowNat(x, k - 1))

RPow(x, k) == IF k >= 0 THEN RPowNat(x, k) ELSE RInv(RPowNat(x, -k))

RECURSIVE RSum(_)
RSum(s) == IF s = <<>> THEN Zero ELSE RAdd(Head(s), RSum(Tail(s)))

-----------------------------------------------------------------------------
(* Literals of calculations.py. *)

BracketThreshold == 9200000
TaxableShare == Rat(8, 10)                 \* the literal 0.8
LandHaircut == Rat(20, 100)                \* the literal 0.20

NotAssigned == <<>>


-----------------------------------------------------------------------------
(* calculations.py: the helpers. *)

\* Mutant of monthly_mortgage_payment_raises: the payment function without its
\* zero-rate branch, so that the annuity quotient is evaluated at rate 0 too.
monthly_mortgage_payment_raises_without_zero_rate_branch(principal, annual_interest_rate, years) ==
    LET monthly_rate == RDiv(annual_interest_rate, Int2Rat(12))
        num_payments == years * 12
        base == RAdd(One, monthly_rate)
    IN  \/ (base = Zero /\ num_payments > 0)
        \/ (base # Zero /\ RSub(One, RPow(base, -num_payments)) = Zero)

\* Whether calculate_monthly_mortgage_payment raises ZeroDivisionError:
\* principal / num_payments with num_payments = 0 (line 12), or the annuity
\* quotient with 1 - (1 + monthly_rate) ** (-num_payments) = 0 (line 13).
monthly_mortgage_payment_raises(principal, annual_interest_rate, years) ==
    LET monthly_rate == RDiv(annual_interest_rate, Int2Rat(12))
        num_payments == years * 12
        base == RAdd(One, monthly_rate)
    IN  IF monthly_rate = Zero
        THEN num_payments = 0
        ELSE \/ (base = Zero /\ num_payments > 0)
             \/ (base # Zero /\ RSub(One, RPow(base, -num_payments)) = Zero)

\* The value calculate_monthly_mortgage_payment returns when it does not raise.
calculate_monthly_mortgage_payment(principal, annual_interest_rate, years) ==
    LET monthly_rate == RDiv(annual_interest_rate, Int2Rat(12))
        num_payments == years * 12
    IN  IF monthly_rate = Zero
        THEN RDiv(principal, Int2Rat(num_payments))
        ELSE RMul(principal,
                  RDiv(monthly_rate,
                       RSub(One, RPow(RAdd(One, monthly_rate), -num_payments))))

\* Mutant of apply_rent_increase: the exponent is year, so that the first
\* year's rent is already raised.
apply_rent_increase_from_first_year(initial_rent, rent_increase_rate, year) ==
    RMul(initial_rent, RPow(RAdd(One, rent_increase_rate), year))

apply_rent_increase(initial_rent, rent_increase_rate, year) ==
    RMul(initial_rent, RPow(RAdd(One, rent_increase_rate), year - 1))

\* Mutant of apply_inflation: the exponent is year, so that the first year's
\* cost is already escalated.
apply_inflation_from_first_year(base_cost, inflation_rate, year) ==
    RMul(base_cost, RPow(RAdd(One, inflation_rate), year))

apply_inflation(base_cost, inflation_rate, year) ==
    RMul(base_cost, RPow(RAdd(One, inflation_rate), year - 1))

-----------------------------------------------------------------------------
(* calculate_rent_scenario *)

RECURSIVE rent_loop(_, _, _)
rent_loop(year, inp, rent_data) ==
    IF year > inp.general.analysis_years THEN rent_data
    ELSE LET monthly_rent_this_year ==
                 apply_rent_increase(inp.rent.current_monthly_rent,
                                     inp.general.rent_increase_rate, year)
             annual_rent == RMul(monthly_rent_this_year, Int2Rat(12))
             total_rent_cost == RAdd(annual_rent, inp.rent.annual_renters_insurance)
         IN  rent_loop(year + 1, inp,
                 Append(rent_data,
                        [year |-> year,
                         monthly_rent |-> monthly_rent_this_year,
                         annual_rent |-> annual_rent,
                         renters_insurance |-> inp.rent.annual_renters_insurance,
                         total_rent_cost |-> total_rent_cost]))

calculate_rent_scenario(inp) == rent_loop(1, inp, <<>>)

-----------------------------------------------------------------------------
(* calculate_buy_scenario: the mortgage and its month-by-month schedule. *)

loan_amount(inp) == RSub(inp.buy.cash_price, inp.buy.downpayment)

monthly_payment(inp) ==
    calculate_monthly_mortgage_payment(loan_amount(inp), inp.buy.mortgage_rate,
                                       inp.buy.mortgage_term_years)

\* Mutant of amortize_month: the balance is not clamped at zero.
amortize_month_unclamped(m, mortgage_balance, payment, annual_interest_rate) ==
    LET monthly_interest ==
            RMul(mortgage_balance, RDiv(annual_interest_rate, Int2Rat(12)))
        monthly_principal == RSub(payment, monthly_interest)
    IN  [month |-> m,
         interest_paid |-> monthly_interest,
         principal_paid |-> monthly_principal,
         mortgage_balance |-> RSub(mortgage_balance, monthly_principal)]

\* One pass of the loop body, lines 104-115.
amortize_month(m, mortgage_balance, payment, annual_interest_rate) ==
    LET monthly_interest ==
            RMul(mortgage_balance, RDiv(annual_interest_rate, Int2Rat(12)))
        monthly_principal == RSub(payment, monthly_interest)
    IN  [month |-> m,
         interest_paid |-> monthly_interest,
         principal_paid |-> monthly_principal,
         mortgage_balance |-> RMax(RSub(mortgage_balance, monthly_principal), Zero)]

\* Mutant of monthly_loop: the loop stops one month early, as range(1,
\* total_months) would.
RECURSIVE monthly_loop_one_short(_, _, _, _, _, _)
monthly_loop_one_short(m, total_months, mortgage_balance, payment, annual_interest_rate, records) ==
    IF m >= total_months THEN records
    ELSE LET rec == amortize_month(m, mortgage_balance, payment, annual_interest_rate)
         IN  monthly_loop_one_short(m + 1, total_months, rec.mortgage_balance, payment,
                                    annual_interest_rate, Append(records, rec))

RECURSIVE monthly_loop(_, _, _, _, _, _)
monthly_loop(m, total_months, mortgage_balance, payment, annual_interest_rate, records) ==
    IF m > total_months THEN records
    ELSE LET rec == amortize_month(m, mortgage_balance, payment, annual_interest_rate)
         IN  monthly_loop(m + 1, total_months, rec.mortgage_balance, payment,
                          annual_interest_rate, Append(records, rec))

monthly_records(inp) ==
    monthly_loop(1, inp.buy.mortgage_term_years * 12, loan_amount(inp),
                 monthly_payment(inp), inp.buy.mortgage_rate, <<>>)

\* Mutant of make_monthly_df: the year of a month is month // 12 + 1, which
\* puts every 12th month into the following year.
make_monthly_df_year_off_by_one(records) ==
    [i \in 1..Len(records) |->
        [month |-> records[i].month,
         interest_paid |-> records[i].interest_paid,
         principal_paid |-> records[i].principal_paid,
         mortgage_balance |-> records[i].mortgage_balance,
         year |-> (records[i].month \div 12) + 1]]

\* monthly_df = DataFrame(monthly_records) with the added "year" column.
make_monthly_df(records) ==
    [i \in 1..Len(records) |->
        [month |-> records[i].month,
         interest_paid |-> records[i].interest_paid,
         principal_paid |-> records[i].principal_paid,
         mortgage_balance |-> records[i].mortgage_balance,
         year |-> ((records[i].month - 1) \div 12) + 1]]

\* Outcome of lines 90-118: the payment may divide by zero; an empty
\* monthly_records gives a DataFrame without columns, and monthly_df["month"]
\* raises KeyError.
buy_scenario_error(inp) ==
    IF monthly_mortgage_payment_raises(loan_amount(inp), inp.buy.mortgage_rate,
                                       inp.buy.mortgage_term_years)
    THEN "ZeroDivisionError"
    ELSE IF inp.buy.mortgage_term_years * 12 < 1 THEN "KeyError"
    ELSE "none"


-----------------------------------------------------------------------------
(* calculate_buy_scenario: the year-by-year projection, lines 120-205. *)

\* year_df = monthly_df[monthly_df["year"] == year]
year_rows(mdf, year) == LET InYear(r) == r.year = year IN SelectSeq(mdf, InYear)

RECURSIVE column_sum(_, _)
column_sum(rows, col) ==
    IF rows = <<>> THEN Zero ELSE RAdd(Head(rows)[col], column_sum(Tail(rows), col))

\* Lines 125-133: the year's gross interest, principal and closing balance.
year_mortgage(mdf, year) ==
    LET year_df == year_rows(mdf, year)
    IN  IF Len(year_df) = 0
        THEN [interest_paid |-> Zero, principal_paid |-> Zero,
              mortgage_balance_end |-> Zero]
        ELSE [interest_paid |-> column_sum(year_df, "interest_paid"),
              principal_paid |-> column_sum(year_df, "principal_paid"),
              mortgage_balance_end |-> year_df[Len(year_df)].mortgage_balance]

\* Lines 146 and 148-151: the two branches of the property value tax.
single_bracket_tax(taxable_value, rate_below) == RMul(taxable_value, rate_below)

\* Mutant of two_bracket_tax: a cliff, the rate above the threshold applied
\* to the whole taxable value.
two_bracket_tax_cliff(taxable_value, rate_below, rate_above) ==
    RMul(taxable_value, rate_above)

two_bracket_tax(taxable_value, rate_below, rate_above) ==
    RAdd(RMul(Int2Rat(BracketThreshold), rate_below),
         RMul(RSub(taxable_value, Int2Rat(BracketThreshold)), rate_above))

\* Lines 144-151.
property_value_tax(tax_authority_property_value, rate_below, rate_above) ==
    LET taxable_value == RMul(tax_authority_property_value, TaxableShare)
    IN  IF RLe(taxable_value, Int2Rat(BracketThreshold))
        THEN single_bracket_tax(taxable_value, rate_below)
        ELSE two_bracket_tax(taxable_value, rate_below, rate_above)

\* Lines 154-155.
land_tax(tax_authority_land_value, land_tax_rate) ==
    RMul(RMul(tax_authority_land_value, RSub(One, LandHaircut)), land_tax_rate)

\* Mutant of buy_record: every year's house value starts from the purchase
\* price instead of the previous year's end value.
buy_record_from_purchase_price(year, inp, mdf, buy_data, tax_authority_property_value, tax_authority_land_value) ==
    LET mort == year_mortgage(mdf, year)
        house_value_start_year ==
            inp.buy.cash_price
        house_value_end_year ==
            RMul(house_value_start_year, RAdd(One, inp.general.house_appreciation_rate))
        property_value_tax_this_year ==
            property_value_tax(tax_authority_property_value,
                               inp.buy.property_value_tax_rate_below_9200000,
                               inp.buy.property_value_tax_rate_above_9200000)
        land_tax_this_year == land_tax(tax_authority_land_value, inp.buy.land_tax_rate)
        infl == inp.general.inflation_rate
        insurance_this_year == apply_inflation(inp.buy.base_insurance, infl, year)
        maintenance_this_year == apply_inflation(inp.buy.base_maintenance, infl, year)
        renovations_this_year == apply_inflation(inp.buy.base_renovations, infl, year)
        community_ownership_cost_this_year ==
            apply_inflation(RMul(inp.buy.community_ownership_cost, Int2Rat(12)), infl, year)
        car_lease_this_year ==
            apply_inflation(RMul(inp.buy.monthly_car_lease, Int2Rat(12)), infl, year)
        net_interest_paid_this_year ==
            RMul(mort.interest_paid, RSub(One, inp.buy.interest_deduction_rate))
        total_annual_outflow ==
            RSum(<<net_interest_paid_this_year, mort.principal_paid,
                   property_value_tax_this_year, land_tax_this_year,
                   insurance_this_year, maintenance_this_year,
                   renovations_this_year, community_ownership_cost_this_year,
                   car_lease_this_year>>)
    IN  [year |-> year,
         interest_paid |-> net_interest_paid_this_year,
         principal_paid |-> mort.principal_paid,
         property_value_tax |-> property_value_tax_this_year,
         land_tax |-> land_tax_this_year,
         insurance |-> insurance_this_year,
         maintenance |-> maintenance_this_year,
         renovations |-> renovations_this_year,
         community_ownership_cost |-> community_ownership_cost_this_year,
         car_lease |-> car_lease_this_year,
         total_outflow |-> total_annual_outflow,
         mortgage_balance_end |-> mort.mortgage_balance_end,
         house_value_start |-> house_value_start_year,
         house_value_end |-> house_value_end_year,
         net_equity_end |-> RSub(house_value_end_year, mort.mortgage_balance_end)]

\* Lines 123-199: the record of one year, from the running state of the loop.
buy_record(year, inp, mdf, buy_data, tax_authority_property_value, tax_authority_land_value) ==
    LET mort == year_mortgage(mdf, year)
        house_value_start_year ==
            IF year = 1 THEN inp.buy.cash_price
            ELSE buy_data[Len(buy_data)].house_value_end
        house_value_end_year ==
            RMul(house_value_start_year, RAdd(One, inp.general.house_appreciation_rate))
        property_value_tax_this_year ==
            property_value_tax(tax_authority_property_value,
                               inp.buy.property_value_tax_rate_below_9200000,
                               inp.buy.property_value_tax_rate_above_9200000)
        land_tax_this_year == land_tax(tax_authority_land_value, inp.buy.land_tax_rate)
        infl == inp.general.inflation_rate
        insurance_this_year == apply_inflation(inp.buy.base_insurance, infl, year)
        maintenance_this_year == apply_inflation(inp.buy.base_maintenance, infl, year)
        renovations_this_year == apply_inflation(inp.buy.base_renovations, infl, year)
        community_ownership_cost_this_year ==
            apply_inflation(RMul(inp.buy.community_ownership_cost, Int2Rat(12)), infl, year)
        car_lease_this_year ==
            apply_inflation(RMul(inp.buy.monthly_car_lease, Int2Rat(12)), infl, year)
        net_interest_paid_this_year ==
            RMul(mort.interest_paid, RSub(One, inp.buy.interest_deduction_rate))
        total_annual_outflow ==
            RSum(<<net_interest_paid_this_year, mort.principal_paid,
                   property_value_tax_this_year, land_tax_this_year,
                   insurance_this_year, maintenance_this_year,
                   renovations_this_year, community_ownership_cost_this_year,
                   car_lease_this_year>>)
    IN  [year |-> year,
         interest_paid |-> net_interest_paid_this_year,
         principal_paid |-> mort.principal_paid,
         property_value_tax |-> property_value_tax_this_year,
         land_tax |-> land_tax_this_year,
         insurance |-> insurance_this_year,
         maintenance |-> maintenance_this_year,
         renovations |-> renovations_this_year,
         community_ownership_cost |-> community_ownership_cost_this_year,
         car_lease |-> car_lease_this_year,
         total_outflow |-> total_annual_outflow,
         mortgage_balance_end |-> mort.mortgage_balance_end,
         house_value_start |-> house_value_start_year,
         house_value_end |-> house_value_end_year,
         net_equity_end |-> RSub(house_value_end_year, mort.mortgage_balance_end)]

\* Lines 202-203: the revaluation of a tax-authority valuation for next year.
revalue(valuation, annual_revaluation_rate) ==
    RMul(valuation, RAdd(One, annual_revaluation_rate))

\* Mutant of buy_loop: the valuations are revalued before the year's record is
\* computed, so that year 1 is already taxed on revalued valuations.
RECURSIVE buy_loop_revalued_first(_, _, _, _, _, _)
buy_loop_revalued_first(year, inp, mdf, buy_data, tax_authority_property_value, tax_authority_land_value) ==
    IF year > inp.general.analysis_years
    THEN [buy_data |-> buy_data,
          tax_authority_property_value |-> tax_authority_property_value,
          tax_authority_land_value |-> tax_authority_land_value]
    ELSE LET property_value ==
                 revalue(tax_authority_property_value, inp.buy.annual_revaluation_rate)
             land_value ==
                 revalue(tax_authority_land_value, inp.buy.annual_revaluation_rate)
         IN  buy_loop_revalued_first(year + 1, inp, mdf,
                 Append(buy_data,
                        buy_record(year, inp, mdf, buy_data, property_value, land_value)),
                 property_value, land_value)

\* The loop of lines 122-203; the result is the loop's final state: buy_data
\* and the two running (local) valuations.
RECURSIVE buy_loop(_, _, _, _, _, _)
buy_loop(year, inp, mdf, buy_data, tax_authority_property_value, tax_authority_land_value) ==
    IF year > inp.general.analysis_years
    THEN [buy_data |-> buy_data,
          tax_authority_property_value |-> tax_authority_property_value,
          tax_authority_land_value |-> tax_authority_land_value]
    ELSE buy_loop(year + 1, inp, mdf,
                  Append(buy_data,
                         buy_record(year, inp, mdf, buy_data,
                                    tax_authority_property_value,
                                    tax_authority_land_value)),
                  revalue(tax_authority_property_value, inp.buy.annual_revaluation_rate),
                  revalue(tax_authority_land_value, inp.buy.annual_revaluation_rate))

\* The final state of calculate_buy_scenario's locals, when it does not raise.
buy_scenario_locals(inp) ==
    buy_loop(1, inp, make_monthly_df(monthly_records(inp)), <<>>,
             inp.buy.tax_authority_property_value, inp.buy.tax_authority_land_value)

\* The DataFrame calculate_buy_scenario returns, when it does not raise.
calculate_buy_scenario(inp) == buy_scenario_locals(inp).buy_data

\* Mutant of inputs_after_buy_scenario: the yearly revaluation is written back
\* into the inputs dictionary instead of into the locals.
inputs_after_buy_scenario_revalued(inp) ==
    [inp EXCEPT !.buy.tax_authority_property_value =
                    buy_scenario_locals(inp).tax_authority_property_value,
                !.buy.tax_authority_land_value =
                    buy_scenario_locals(inp).tax_authority_land_value]

\* The inputs dictionary after calculate_buy_scenario(inputs): lines 86-88 copy
\* the valuations into locals and lines 202-203 rebind those locals only, so
\* the caller's dictionary is what it was.
inputs_after_buy_scenario(inp) == inp


-----------------------------------------------------------------------------
(* calculate_rent_investment_scenario *)

\* Lines 212-216: the frame built from the two series, aligned row by row.
merged_frame(rdf, bdf) ==
    [i \in 1..Len(rdf) |->
        [year |-> rdf[i].year,
         rent_outflow |-> rdf[i].total_rent_cost,
         buy_outflow |-> bdf[i].total_outflow]]

\* merged[merged["year"] == year].iloc[0]
merged_row(merged, year) ==
    LET IsYear(r) == r.year = year IN Head(SelectSeq(merged, IsYear))

\* Mutant of rent_invest_loop: the year's interest is applied to the start
\* balance, and the difference is added afterwards.
RECURSIVE rent_invest_loop_interest_first(_, _, _, _, _)
rent_invest_loop_interest_first(year, inp, merged, investment_balance, rent_invest_data) ==
    IF year > inp.general.analysis_years THEN rent_invest_data
    ELSE LET row == merged_row(merged, year)
             difference == RSub(row.buy_outflow, row.rent_outflow)
             investment_start == investment_balance
             investment_end ==
                 RAdd(RMul(investment_start,
                           RAdd(One, inp.general.savings_interest_rate)),
                      difference)
         IN  rent_invest_loop_interest_first(year + 1, inp, merged, investment_end,
                 Append(rent_invest_data,
                        [year |-> year,
                         rent_outflow |-> row.rent_outflow,
                         buy_outflow |-> row.buy_outflow,
                         difference |-> difference,
                         investment_start |-> investment_start,
                         investment_end |-> investment_end]))

RECURSIVE rent_invest_loop(_, _, _, _, _)
rent_invest_loop(year, inp, merged, investment_balance, rent_invest_data) ==
    IF year > inp.general.analysis_years THEN rent_invest_data
    ELSE LET row == merged_row(merged, year)
             difference == RSub(row.buy_outflow, row.rent_outflow)
             investment_start == investment_balance
             investment_after_diff == RAdd(investment_start, difference)
             investment_end ==
                 RMul(investment_after_diff, RAdd(One, inp.general.savings_interest_rate))
         IN  rent_invest_loop(year + 1, inp, merged, investment_end,
                 Append(rent_invest_data,
                        [year |-> year,
                         rent_outflow |-> row.rent_outflow,
                         buy_outflow |-> row.buy_outflow,
                         difference |-> difference,
                         investment_start |-> investment_start,
                         investment_end |-> investment_end]))

\* Lines 251-252: the column final_rent_net_worth, the last investment_end.
with_final_rent_net_worth(data) ==
    [i \in 1..Len(data) |->
        [year |-> data[i].year,
         rent_outflow |-> data[i].rent_outflow,
         buy_outflow |-> data[i].buy_outflow,
         difference |-> data[i].difference,
         investment_start |-> data[i].investment_start,
         investment_end |-> data[i].investment_end,
         final_rent_net_worth |-> data[Len(data)].investment_end]]

calculate_rent_investment_scenario(inp, rdf, bdf) ==
    with_final_rent_net_worth(
        rent_invest_loop(1, inp, merged_frame(rdf, bdf),
                         RAdd(inp.buy.downpayment, inp.buy.closing_costs), <<>>))

-----------------------------------------------------------------------------
(* compare_scenarios *)

\* Mutant of compare_scenarios: the agent's commission is charged on the raw
\* equity instead of the final home value.
compare_scenarios_commission_on_equity(rdf, bdf, ridf, inp) ==
    LET total_rent_outflow == column_sum(rdf, "total_rent_cost")
        final_rent_net_worth == ridf[Len(ridf)].final_rent_net_worth
        total_buy_outflow == column_sum(bdf, "total_outflow")
        last_year == inp.general.analysis_years
        IsLast(r) == r.year = last_year
        final_buy_row == Head(SelectSeq(bdf, IsLast))
        final_home_value == final_buy_row.house_value_end
        final_mortgage_balance == final_buy_row.mortgage_balance_end
        raw_equity == RSub(final_home_value, final_mortgage_balance)
        agent_commission == RMul(raw_equity, inp.selling.agent_commission_rate)
        capital_gains == RMax(RSub(final_home_value, inp.buy.cash_price), Zero)
        cgt == RMul(capital_gains, inp.selling.capital_gains_tax_rate)
        final_net_equity_buying == RSub(RSub(raw_equity, agent_commission), cgt)
    IN  [total_rent_outflow |-> total_rent_outflow,
         final_rent_net_worth |-> final_rent_net_worth,
         total_buy_outflow |-> total_buy_outflow,
         final_net_equity_buying |-> final_net_equity_buying,
         difference_in_net_worth |->
             RSub(final_net_equity_buying, final_rent_net_worth)]

compare_scenarios(rdf, bdf, ridf, inp) ==
    LET total_rent_outflow == column_sum(rdf, "total_rent_cost")
        final_rent_net_worth == ridf[Len(ridf)].final_rent_net_worth
        total_buy_outflow == column_sum(bdf, "total_outflow")
        last_year == inp.general.analysis_years
        IsLast(r) == r.year = last_year
        final_buy_row == Head(SelectSeq(bdf, IsLast))
        final_home_value == final_buy_row.house_value_end
        final_mortgage_balance == final_buy_row.mortgage_balance_end
        raw_equity == RSub(final_home_value, final_mortgage_balance)
        agent_commission == RMul(final_home_value, inp.selling.agent_commission_rate)
        capital_gains == RMax(RSub(final_home_value, inp.buy.cash_price), Zero)
        cgt == RMul(capital_gains, inp.selling.capital_gains_tax_rate)
        final_net_equity_buying == RSub(RSub(raw_equity, agent_commission), cgt)
    IN  [total_rent_outflow |-> total_rent_outflow,
         final_rent_net_worth |-> final_rent_net_worth,
         total_buy_outflow |-> total_buy_outflow,
         final_net_equity_buying |-> final_net_equity_buying,
         difference_in_net_worth |->
             RSub(final_net_equity_buying, final_rent_net_worth)]

\* app.py lines 155-169: the banner main shows for the difference.
summary_banner(result) ==
    IF RLt(Zero, result.difference_in_net_worth) THEN "buying"
    ELSE IF RLt(result.difference_in_net_worth, Zero) THEN "renting"
    ELSE "same"


-----------------------------------------------------------------------------
(* The input bundles of the model: the dictionary main builds, app.py:105-144. *)
(* Rates are exact fractions chosen so that every intermediate value stays    *)
(* within TLC's 32-bit integers.                                              *)

AnalysisYearsChoices == 1..MaxAnalysisYears

\* number_input("Mortgage Term (years)") has no minimum: 0 and -1 can be entered.
TermYearsChoices == (-1)..MaxTermYears

MortgageRateChoices == {Zero, Int2Rat(12)}

\* Purchase price 8190; loan 4095, 0 (downpayment = price) and -4095
\* (downpayment above the price: number_input sets no maximum).
DownpaymentChoices == {Int2Rat(4095), Int2Rat(8190), Int2Rat(12285)}

GeneralChoices ==
    { [inflation_rate |-> Zero, savings_interest_rate |-> Zero,
       house_appreciation_rate |-> Zero, rent_increase_rate |-> Zero],
      [inflation_rate |-> Rat(1, 2), savings_interest_rate |-> One,
       house_appreciation_rate |-> Rat(1, 2), rent_increase_rate |-> Rat(1, 2)],
      [inflation_rate |-> Zero, savings_interest_rate |-> One,
       house_appreciation_rate |-> Rat(1, 2), rent_increase_rate |-> Zero] }

\* Tax-authority property valuation and its revaluation rate: taxable value
\* below the threshold (4,000,000), exactly on it (9,200,000), and above it.
ValuationChoices ==
    { [value |-> Int2Rat(5000000), revaluation |-> Zero],
      [value |-> Int2Rat(11500000), revaluation |-> Zero],
      [value |-> Int2Rat(11500000), revaluation |-> Rat(1, 2)],
      [value |-> Int2Rat(12500000), revaluation |-> Rat(1, 2)] }

TaxRateChoices ==
    { [below |-> Rat(1, 100), above |-> Rat(3, 100)],
      [below |-> Rat(2, 100), above |-> Zero] }

DeductionChoices == {Zero, Rat(1, 2)}

SellingChoices ==
    { [agent_commission_rate |-> Zero, capital_gains_tax_rate |-> Zero],
      [agent_commission_rate |-> Rat(1, 10), capital_gains_tax_rate |-> Rat(1, 2)] }

Bundle(years, term, rate, down, gen, val, tax, ded, sell) ==
    [general |->
        [inflation_rate |-> gen.inflation_rate,
         savings_interest_rate |-> gen.savings_interest_rate,
         analysis_years |-> years,
         house_appreciation_rate |-> gen.house_appreciation_rate,
         rent_increase_rate |-> gen.rent_increase_rate],
     rent |->
        [current_monthly_rent |-> Int2Rat(10000),
         annual_renters_insurance |-> Int2Rat(500)],
     buy |->
        [cash_price |-> Int2Rat(8190),
         downpayment |-> down,
         closing_costs |-> Int2Rat(200),
         mortgage_rate |-> rate,
         mortgage_term_years |-> term,
         property_value_tax_rate_below_9200000 |-> tax.below,
         property_value_tax_rate_above_9200000 |-> tax.above,
         land_tax_rate |-> Rat(1, 100),
         tax_authority_property_value |-> val.value,
         tax_authority_land_value |-> Int2Rat(400000),
         annual_revaluation_rate |-> val.revaluation,
         base_insurance |-> Int2Rat(30000),
         base_maintenance |-> Int2Rat(5000),
         base_renovations |-> Int2Rat(10000),
         community_ownership_cost |-> Int2Rat(500),
         monthly_car_lease |-> Int2Rat(100),
         interest_deduction_rate |-> ded],
     selling |-> sell]

\* A nonzero mortgage rate is paired with a term of at most one year and a
\* loan that is not negative: (1 + rate/12) ** (12 * term) and the balances
\* of the schedule then stay within 32-bit integers.
Representable(term, rate, down) ==
    rate = Zero \/ term < 1 \/ (term = 1 /\ RLe(down, Int2Rat(8190)))

InputBundles ==
    { Bundle(years, mt[1], mt[2], mt[3], gen, val, tax, ded, sell) :
        years \in AnalysisYearsChoices,
        mt \in { x \in TermYearsChoices \X MortgageRateChoices \X DownpaymentChoices :
                    Representable(x[1], x[2], x[3]) },
        gen \in GeneralChoices, val \in ValuationChoices, tax \in TaxRateChoices,
        ded \in DeductionChoices, sell \in SellingChoices }

-----------------------------------------------------------------------------
(* The run sequence of main, app.py:146-169. *)

Init ==
    /\ inputs \in InputBundles
    /\ pc = "rent"
    /\ run = 1
    /\ rent_df = NotAssigned
    /\ monthly_df = NotAssigned
    /\ buy_df = NotAssigned
    /\ rent_invest_df = NotAssigned
    /\ comparison_result = NotAssigned
    /\ banner = "none"
    /\ err = "none"
    /\ first = NotAssigned

\* rent_df = calculate_rent_scenario(inputs)
RunRentScenario ==
    /\ pc = "rent"
    /\ rent_df' = calculate_rent_scenario(inputs)
    /\ pc' = "buy"
    /\ UNCHANGED <<inputs, run, monthly_df, buy_df, rent_invest_df,
                   comparison_result, banner, err, first>>

\* buy_df = calculate_buy_scenario(inputs); an exception ends the run.
RunBuyScenario ==
    /\ pc = "buy"
    /\ IF buy_scenario_error(inputs) # "none"
       THEN /\ err' = buy_scenario_error(inputs)
            /\ pc' = "failed"
            /\ UNCHANGED <<inputs, monthly_df, buy_df>>
       ELSE /\ monthly_df' = make_monthly_df(monthly_records(inputs))
            /\ buy_df' = calculate_buy_scenario(inputs)
            /\ inputs' = inputs_after_buy_scenario(inputs)
            /\ pc' = "invest"
            /\ UNCHANGED err
    /\ UNCHANGED <<run, rent_df, rent_invest_df, comparison_result, banner, first>>

\* rent_invest_df = calculate_rent_investment_scenario(inputs, rent_df, buy_df)
RunRentInvestmentScenario ==
    /\ pc = "invest"
    /\ rent_invest_df' = calculate_rent_investment_scenario(inputs, rent_df, buy_df)
    /\ pc' = "compare"
    /\ UNCHANGED <<inputs, run, rent_df, monthly_df, buy_df, comparison_result,
                   banner, err, first>>

\* comparison_result = compare_scenarios(rent_df, buy_df, rent_invest_df, inputs)
RunCompareScenarios ==
    /\ pc = "compare"
    /\ comparison_result' = compare_scenarios(rent_df, buy_df, rent_invest_df, inputs)
    /\ pc' = "summary"
    /\ UNCHANGED <<inputs, run, rent_df, monthly_df, buy_df, rent_invest_df,
                   banner, err, first>>

\* The summary banner, app.py:155-169.
ShowSummary ==
    /\ pc = "summary"
    /\ banner' = summary_banner(comparison_result)
    /\ pc' = "done"
    /\ UNCHANGED <<inputs, run, rent_df, monthly_df, buy_df, rent_invest_df,
                   comparison_result, err, first>>

Outcome ==
    [rent_df |-> rent_df, buy_df |-> buy_df, rent_invest_df |-> rent_invest_df,
     comparison_result |-> comparison_result, err |-> err]

\* The engine is run once more on the same inputs dictionary; what the first
\* run produced is kept in `first` for comparison.
Rerun ==
    /\ pc \in {"done", "failed"}
    /\ run = 1
    /\ first' = Outcome
    /\ run' = 2
    /\ pc' = "rent"
    /\ rent_df' = NotAssigned
    /\ monthly_df' = NotAssigned
    /\ buy_df' = NotAssigned
    /\ rent_invest_df' = NotAssigned
    /\ comparison_result' = NotAssigned
    /\ banner' = "none"
    /\ err' = "none"
    /\ UNCHANGED inputs

Next ==
    \/ RunRentScenario
    \/ RunBuyScenario
    \/ RunRentInvestmentScenario
    \/ RunCompareScenarios
    \/ ShowSummary
    \/ Rerun

Spec == Init /\ [][Next]_vars


-----------------------------------------------------------------------------
(* Vocabulary of the properties. *)

AnalysisYears == inputs.general.analysis_years
TermYears == inputs.buy.mortgage_term_years
Loan == RSub(inputs.buy.cash_price, inputs.buy.downpayment)

\* main has got past the call that assigns the variable
BuyDone == pc \in {"invest", "compare", "summary", "done"}
InvestDone == pc \in {"compare", "summary", "done"}
CompareDone == pc \in {"summary", "done"}

\* The bundle is valid: horizon and term at least one year, loan not negative
\* (every rate of InputBundles is non-negative).
ValidInputs ==
    /\ AnalysisYears >= 1
    /\ TermYears >= 1
    /\ RLe(Zero, Loan)
    /\ RLe(Zero, inputs.buy.mortgage_rate)

\* x * (1 + rate) ^ k
Compound(x, rate, k) == RMul(x, RPow(RAdd(One, rate), k))

-----------------------------------------------------------------------------
\* C1: for every completed run the summary is computed from the buy record of
\* the last analysis year: final_net_equity_buying = house_value_end -
\* mortgage_balance_end - house_value_end * agent_commission_rate -
\* max(house_value_end - cash_price, 0) * capital_gains_tax_rate;
\* difference_in_net_worth = final_net_equity_buying - final_rent_net_worth,
\* the latter being investment_end of the last rent+invest year; so the
\* difference is positive iff buying's equity exceeds the renter's worth, and
\* the capital-gains tax is 0 when the house ends at or below the price.
C1_FinalRow == buy_df[AnalysisYears]

C1_Gains == RSub(C1_FinalRow.house_value_end, inputs.buy.cash_price)

C1_CapitalGainsTax ==
    IF RLe(C1_Gains, Zero) THEN Zero
    ELSE RMul(C1_Gains, inputs.selling.capital_gains_tax_rate)

C1_ComparatorFormula ==
    CompareDone =>
        LET hv == C1_FinalRow.house_value_end
            bal == C1_FinalRow.mortgage_balance_end
            commission == RMul(hv, inputs.selling.agent_commission_rate)
            equity == RSub(RSub(RSub(hv, bal), commission), C1_CapitalGainsTax)
            worth == rent_invest_df[AnalysisYears].investment_end
            r == comparison_result
        IN  /\ C1_FinalRow.year = AnalysisYears
            /\ r.final_net_equity_buying = equity
            /\ r.final_rent_net_worth = worth
            /\ r.difference_in_net_worth = RSub(equity, worth)
            /\ RLt(Zero, r.difference_in_net_worth)
                   <=> RLt(r.final_rent_net_worth, r.final_net_equity_buying)
            /\ (pc = "done" =>
                   (banner = "buying" <=> RLt(Zero, r.difference_in_net_worth)))

\* C1 witness: a completed run in which the house gained value, the gain is
\* taxed, a commission is due, a mortgage balance is outstanding, and buying
\* ends ahead.
C1_Witness ==
    /\ pc = "done"
    /\ RLt(Zero, C1_Gains)
    /\ RLt(Zero, inputs.selling.capital_gains_tax_rate)
    /\ RLt(Zero, C1_FinalRow.mortgage_balance_end)
    /\ RLt(Zero, comparison_result.difference_in_net_worth)

\* A completed run in which renting ends ahead (the other sign).
C1_RentingWins ==
    pc = "done" /\ RLt(comparison_result.difference_in_net_worth, Zero)

-----------------------------------------------------------------------------
\* C2: in the rent+invest series, for every year n, investment_start(n) is
\* investment_end(n-1) and investment_end(n) = (investment_end(n-1) +
\* buy_outflow(n) - rent_outflow(n)) * (1 + savings_interest_rate), with
\* investment_end(0) = downpayment + closing_costs: the difference is added
\* before the interest, and the interest applies to the adjusted balance.
C2_PrevEnd(n) ==
    IF n = 1 THEN RAdd(inputs.buy.downpayment, inputs.buy.closing_costs)
    ELSE rent_invest_df[n - 1].investment_end

C2_InvestmentRecurrence ==
    InvestDone =>
        /\ Len(rent_invest_df) = AnalysisYears
        /\ \A n \in 1..AnalysisYears :
              LET row == rent_invest_df[n]
              IN  /\ row.year = n
                  /\ row.buy_outflow = buy_df[n].total_outflow
                  /\ row.rent_outflow = rent_df[n].total_rent_cost
                  /\ row.investment_start = C2_PrevEnd(n)
                  /\ row.investment_end =
                         RMul(RAdd(C2_PrevEnd(n),
                                   RSub(row.buy_outflow, row.rent_outflow)),
                              RAdd(One, inputs.general.savings_interest_rate))

\* C2 witness: a series of at least two years with a nonzero savings rate and
\* a nonzero difference in the second year.
C2_Witness ==
    /\ InvestDone
    /\ AnalysisYears >= 2
    /\ inputs.general.savings_interest_rate # Zero
    /\ rent_invest_df[2].difference # Zero
    /\ rent_invest_df[2].investment_start # Zero

-----------------------------------------------------------------------------
\* C3: when the horizon is longer than the mortgage term, every buy record of
\* a year after the term has interest_paid = 0, principal_paid = 0 and
\* mortgage_balance_end = 0; a record of a year within the term aggregates
\* the 12 monthly records of months 12*(year-1)+1 .. 12*year: the sum of
\* their interest (which the record holds net of the interest deduction), the
\* sum of their principal, and the balance of the 12th month.
RECURSIVE C3_MonthSum(_, _, _)
C3_MonthSum(col, from, to) ==
    IF from > to THEN Zero
    ELSE RAdd(monthly_df[from][col], C3_MonthSum(col, from + 1, to))

C3_YearlyAggregation ==
    BuyDone =>
        \A y \in 1..AnalysisYears :
            IF y > TermYears
            THEN /\ buy_df[y].interest_paid = Zero
                 /\ buy_df[y].principal_paid = Zero
                 /\ buy_df[y].mortgage_balance_end = Zero
            ELSE /\ buy_df[y].interest_paid =
                        RMul(C3_MonthSum("interest_paid", 12 * (y - 1) + 1, 12 * y),
                             RSub(One, inputs.buy.interest_deduction_rate))
                 /\ buy_df[y].principal_paid =
                        C3_MonthSum("principal_paid", 12 * (y - 1) + 1, 12 * y)
                 /\ buy_df[y].mortgage_balance_end = monthly_df[12 * y].mortgage_balance

\* C3 witness: a horizon longer than the term, on a mortgage that paid
\* interest (partly deducted) and principal within the term.
C3_Witness ==
    /\ BuyDone
    /\ AnalysisYears > TermYears
    /\ buy_df[TermYears].interest_paid # Zero
    /\ buy_df[TermYears].principal_paid # Zero
    /\ inputs.buy.interest_deduction_rate # Zero


-----------------------------------------------------------------------------
\* C4: the mortgage computation fails with InvalidInputError when the term is
\* <= 0 years or the loan principal (cash_price - downpayment) is negative:
\* the buy projection of such a bundle ends in that error, and no schedule
\* and no buy series come out of it.
C4_InvalidMortgage == TermYears <= 0 \/ RLt(Loan, Zero)

C4_BuyStepOver == pc \in {"invest", "compare", "summary", "done", "failed"}

C4_InvalidMortgageRejected ==
    (C4_BuyStepOver /\ C4_InvalidMortgage) =>
        /\ err = "InvalidInputError"
        /\ monthly_df = NotAssigned
        /\ buy_df = NotAssigned

\* What the code does instead, case by case.
C4_ActualOutcome ==
    C4_BuyStepOver =>
        /\ TermYears = 0 => (err = "ZeroDivisionError" /\ buy_df = NotAssigned)
        /\ TermYears < 0 => (err = "KeyError" /\ buy_df = NotAssigned)
        /\ TermYears >= 1 => (err = "none" /\ Len(buy_df) = AnalysisYears)

-----------------------------------------------------------------------------
\* C5: a run on an invalid bundle (term <= 0, negative principal) is aborted
\* with InvalidInputError before any series is produced: in no state of such
\* a run is a rent, buy or rent+invest series or a summary assigned.
C5_NoPartialResults ==
    C4_InvalidMortgage =>
        /\ rent_df = NotAssigned
        /\ buy_df = NotAssigned
        /\ rent_invest_df = NotAssigned
        /\ comparison_result = NotAssigned
        /\ err \in {"none", "InvalidInputError"}

-----------------------------------------------------------------------------
\* C6: for valid inputs the monthly schedule has exactly 12 * term records,
\* with month indices 1 .. 12 * term in order; at a zero annual rate the
\* payment is principal / (12 * term), every month's interest is 0, every
\* month's principal_paid is that payment and the last balance is 0.
C6_ExamplePayment == calculate_monthly_mortgage_payment(Int2Rat(120000), Zero, 10)

\* The balance of the schedule of 120,000 at 0% over 10 years after k years.
C6_ExampleBalance(k) == Int2Rat(120000 - 12000 * k)

\* The example schedule, year by year: the loop run over the twelve months of
\* year k from C6_ExampleBalance(k - 1) yields that year's records and ends
\* with C6_ExampleBalance(k), from which the next year's months start.
C6_Example ==
    /\ C6_ExamplePayment = Int2Rat(1000)
    /\ C6_ExampleBalance(10) = Zero
    /\ \A k \in 1..10 :
          LET sched == monthly_loop(12 * (k - 1) + 1, 12 * k, C6_ExampleBalance(k - 1),
                                    C6_ExamplePayment, Zero, <<>>)
          IN  /\ Len(sched) = 12
              /\ \A i \in 1..12 :
                    /\ sched[i].month = 12 * (k - 1) + i
                    /\ sched[i].interest_paid = Zero
                    /\ sched[i].principal_paid = Int2Rat(1000)
              /\ sched[12].mortgage_balance = C6_ExampleBalance(k)

C6_Schedule ==
    (BuyDone /\ ValidInputs) =>
        /\ Len(monthly_df) = 12 * TermYears
        /\ \A i \in 1..Len(monthly_df) : monthly_df[i].month = i
        /\ inputs.buy.mortgage_rate = Zero =>
              /\ \A i \in 1..Len(monthly_df) :
                    /\ monthly_df[i].interest_paid = Zero
                    /\ monthly_df[i].principal_paid =
                           RDiv(Loan, Int2Rat(12 * TermYears))
              /\ monthly_df[Len(monthly_df)].mortgage_balance = Zero
        /\ pc = "invest" => C6_Example

\* C6 witness: a two-year, zero-rate schedule on a positive loan.
C6_Witness ==
    /\ BuyDone
    /\ ValidInputs
    /\ inputs.buy.mortgage_rate = Zero
    /\ RLt(Zero, Loan)
    /\ Len(monthly_df) = 24
    /\ monthly_df[23].mortgage_balance # Zero

-----------------------------------------------------------------------------
\* C7: the rent series has one record per year 1 .. analysis_years in
\* increasing order, with monthly_rent(y) = current_monthly_rent *
\* (1 + rent_increase_rate)^(y-1) (year 1 is the current rent exactly),
\* annual_rent = 12 * monthly_rent, renters_insurance the un-inflated annual
\* insurance in every year, and total_rent_cost = annual_rent + insurance.
C7_RentSeries ==
    rent_df # NotAssigned =>
        /\ Len(rent_df) = AnalysisYears
        /\ rent_df[1].monthly_rent = inputs.rent.current_monthly_rent
        /\ \A y \in 1..AnalysisYears :
              /\ rent_df[y].year = y
              /\ rent_df[y].monthly_rent =
                     Compound(inputs.rent.current_monthly_rent,
                              inputs.general.rent_increase_rate, y - 1)
              /\ rent_df[y].annual_rent = RMul(Int2Rat(12), rent_df[y].monthly_rent)
              /\ rent_df[y].renters_insurance = inputs.rent.annual_renters_insurance
              /\ rent_df[y].total_rent_cost =
                     RAdd(rent_df[y].annual_rent, inputs.rent.annual_renters_insurance)

\* C7 witness: a rent series of several years whose rent rose.
C7_Witness ==
    /\ rent_df # NotAssigned
    /\ AnalysisYears >= 3
    /\ inputs.general.rent_increase_rate # Zero
    /\ RLt(rent_df[2].monthly_rent, rent_df[3].monthly_rent)

-----------------------------------------------------------------------------
\* C8: the property value tax of a year is the marginal two-bracket function
\* of T = 0.8 * (that year's tax-authority property valuation): T * rate_below
\* up to 9,200,000, and 9,200,000 * rate_below + (T - 9,200,000) * rate_above
\* beyond; at T = 9,200,000 exactly both branches give the same tax, for
\* every pair of rates.
C8_Taxable(y) ==
    RMul(Rat(4, 5),
         Compound(inputs.buy.tax_authority_property_value,
                  inputs.buy.annual_revaluation_rate, y - 1))

C8_Marginal(T, below, above) ==
    IF RLe(T, Int2Rat(9200000)) THEN RMul(T, below)
    ELSE RAdd(RMul(Int2Rat(9200000), below),
              RMul(RSub(T, Int2Rat(9200000)), above))

C8_RateSamples == {Zero, Rat(1, 100), Rat(51, 10000), Rat(14, 1000), One}

C8_ContinuousAtThreshold ==
    \A below \in C8_RateSamples, above \in C8_RateSamples :
        single_bracket_tax(Int2Rat(9200000), below)
            = two_bracket_tax(Int2Rat(9200000), below, above)

C8_PropertyValueTax ==
    BuyDone =>
        /\ \A y \in 1..AnalysisYears :
              /\ buy_df[y].property_value_tax =
                     C8_Marginal(C8_Taxable(y),
                                 inputs.buy.property_value_tax_rate_below_9200000,
                                 inputs.buy.property_value_tax_rate_above_9200000)
              /\ C8_Taxable(y) = Int2Rat(9200000) =>
                     single_bracket_tax(C8_Taxable(y),
                         inputs.buy.property_value_tax_rate_below_9200000)
                     = two_bracket_tax(C8_Taxable(y),
                         inputs.buy.property_value_tax_rate_below_9200000,
                         inputs.buy.property_value_tax_rate_above_9200000)
        /\ pc = "invest" => C8_ContinuousAtThreshold

\* C8 witness: a buy series with one year exactly on the threshold and a
\* later year above it, taxed at two different nonzero rates.
C8_Witness ==
    /\ BuyDone
    /\ AnalysisYears >= 2
    /\ C8_Taxable(1) = Int2Rat(9200000)
    /\ RLt(Int2Rat(9200000), C8_Taxable(2))
    /\ inputs.buy.property_value_tax_rate_above_9200000 # Zero
    /\ buy_df[1].property_value_tax # buy_df[2].property_value_tax


-----------------------------------------------------------------------------
\* C9: on every valid bundle (horizon and term at least one year, loan and
\* rates not negative), zero rate, zero loan and a term longer or shorter than
\* the horizon included, the run raises nothing and every step takes it to the
\* next position of rent -> buy -> invest -> compare -> summary -> done, where
\* the three series have analysis_years records each and the summary exists;
\* when the term outlasts the horizon the last buy record carries the
\* balance outstanding at month 12 * analysis_years.
C9_SummaryFields ==
    {"total_rent_outflow", "final_rent_net_worth", "total_buy_outflow",
     "final_net_equity_buying", "difference_in_net_worth"}

C9_NothingRaised ==
    ValidInputs =>
        /\ err = "none"
        /\ pc \in {"rent", "buy", "invest", "compare", "summary", "done"}
        /\ pc = "done" =>
              /\ Len(rent_df) = AnalysisYears
              /\ Len(buy_df) = AnalysisYears
              /\ Len(rent_invest_df) = AnalysisYears
              /\ DOMAIN comparison_result = C9_SummaryFields
        /\ (BuyDone /\ TermYears > AnalysisYears) =>
              buy_df[AnalysisYears].mortgage_balance_end
                  = monthly_df[12 * AnalysisYears].mortgage_balance

\* Every step of a valid run moves main to its next position, so that the run
\* is over after five steps.
C9_NextPosition ==
    [rent |-> "buy", buy |-> "invest", invest |-> "compare",
     compare |-> "summary", summary |-> "done", done |-> "rent"]

C9_StepAdvances == ValidInputs => pc' = C9_NextPosition[pc]

C9_ValidRunCompletes == [][C9_StepAdvances]_vars /\ []C9_NothingRaised

\* C9 witness: a completed run at a zero mortgage rate whose term outlasts
\* the horizon, with a balance still outstanding at the end.
C9_Witness ==
    /\ pc = "done"
    /\ ValidInputs
    /\ inputs.buy.mortgage_rate = Zero
    /\ TermYears > AnalysisYears
    /\ RLt(Zero, buy_df[AnalysisYears].mortgage_balance_end)

\* Completed valid runs of the other edge cases: no loan at all, and a
\* mortgage at a nonzero rate that ends before the horizon.
C9_ZeroLoanRun ==
    pc = "done" /\ ValidInputs /\ Loan = Zero /\ inputs.buy.mortgage_rate = Zero

C9_ShortTermRun ==
    /\ pc = "done"
    /\ ValidInputs
    /\ inputs.buy.mortgage_rate # Zero
    /\ TermYears < AnalysisYears
    /\ RLt(Zero, Loan)

-----------------------------------------------------------------------------
\* C10: every engine operation leaves the input bundle as it was (the
\* tax-authority valuations included) and leaves the series passed to it as
\* they were, and a second run on the same bundle produces the same series,
\* the same summary and the same outcome as the first.
C10_EngineStep == pc \in {"rent", "buy", "invest", "compare"}

C10_FrameOfStep ==
    C10_EngineStep =>
        /\ inputs' = inputs
        /\ pc \in {"buy", "invest", "compare"} => rent_df' = rent_df
        /\ pc \in {"invest", "compare"} => buy_df' = buy_df
        /\ pc = "compare" => rent_invest_df' = rent_invest_df

C10_RepeatAgrees ==
    (run = 2 /\ pc \in {"done", "failed"}) => Outcome = first

-----------------------------------------------------------------------------
\* C11: in the monthly schedule, for every month m, interest(m) =
\* balance(m-1) * annual_rate / 12, principal_paid(m) = payment - interest(m)
\* and balance(m) = max(balance(m-1) - principal_paid(m), 0), with balance(0)
\* the loan amount; so no monthly record and no yearly mortgage_balance_end
\* holds a negative balance, and in a month where the clamp fires the recorded
\* principal_paid is still payment - interest(m), which is more than the
\* amount that was needed to bring the balance to zero.
C11_Payment ==
    LET n == 12 * TermYears
        mr == RDiv(inputs.buy.mortgage_rate, Int2Rat(12))
    IN  IF inputs.buy.mortgage_rate = Zero THEN RDiv(Loan, Int2Rat(n))
        ELSE RDiv(RMul(Loan, mr), RSub(One, RInv(RPowNat(RAdd(One, mr), n))))

C11_PrevBalance(m) == IF m = 1 THEN Loan ELSE monthly_df[m - 1].mortgage_balance

\* balance(m-1) - principal_paid(m) is negative: the clamp changes the value
C11_ClampFires(m) ==
    RLt(RSub(C11_PrevBalance(m), monthly_df[m].principal_paid), Zero)

C11_Amortization ==
    BuyDone =>
        /\ \A m \in 1..(12 * TermYears) :
              LET rec == monthly_df[m]
                  unclamped == RSub(C11_PrevBalance(m), rec.principal_paid)
              IN  /\ rec.interest_paid =
                         RDiv(RMul(C11_PrevBalance(m), inputs.buy.mortgage_rate),
                              Int2Rat(12))
                  /\ rec.principal_paid = RSub(C11_Payment, rec.interest_paid)
                  /\ rec.mortgage_balance =
                         (IF RLt(unclamped, Zero) THEN Zero ELSE unclamped)
                  /\ RLe(Zero, rec.mortgage_balance)
                  /\ C11_ClampFires(m) =>
                         /\ rec.mortgage_balance = Zero
                         /\ RLt(C11_PrevBalance(m), rec.principal_paid)
        /\ \A y \in 1..AnalysisYears : RLe(Zero, buy_df[y].mortgage_balance_end)

\* C11 witness: a schedule in which the clamp fires in one month and a later
\* month ends with a positive balance.
C11_Witness ==
    /\ BuyDone
    /\ \E m \in 1..(12 * TermYears) : C11_ClampFires(m)
    /\ \E m \in 1..(12 * TermYears) : RLt(Zero, monthly_df[m].mortgage_balance)

\* A schedule at a nonzero rate on a positive loan, where the clamp never
\* changes a value.
C11_AnnuityRun ==
    /\ BuyDone
    /\ inputs.buy.mortgage_rate # Zero
    /\ RLt(Zero, Loan)
    /\ \A m \in 1..(12 * TermYears) : ~C11_ClampFires(m)
    /\ monthly_df[12 * TermYears].mortgage_balance = Zero

-----------------------------------------------------------------------------
\* C12: in every buy series house_value_start(1) is the cash price,
\* house_value_start(y) = house_value_end(y-1) for y >= 2, house_value_end(y)
\* = house_value_start(y) * (1 + house_appreciation_rate), and net_equity_end
\* = house_value_end - mortgage_balance_end: no selling commission and no
\* capital-gains tax is deducted in a yearly record.
C12_HouseValueChain ==
    BuyDone =>
        \A y \in 1..AnalysisYears :
            /\ buy_df[y].house_value_start =
                   (IF y = 1 THEN inputs.buy.cash_price
                    ELSE buy_df[y - 1].house_value_end)
            /\ buy_df[y].house_value_end =
                   RMul(buy_df[y].house_value_start,
                        RAdd(One, inputs.general.house_appreciation_rate))
            /\ buy_df[y].house_value_end =
                   Compound(inputs.buy.cash_price,
                            inputs.general.house_appreciation_rate, y)
            /\ buy_df[y].net_equity_end =
                   RSub(buy_df[y].house_value_end, buy_df[y].mortgage_balance_end)

\* C12 witness: a series of three years on an appreciating house, with selling
\* costs configured and a balance outstanding in the first year.
C12_Witness ==
    /\ BuyDone
    /\ AnalysisYears >= 3
    /\ inputs.general.house_appreciation_rate # Zero
    /\ inputs.selling.agent_commission_rate # Zero
    /\ inputs.selling.capital_gains_tax_rate # Zero
    /\ buy_df[1].mortgage_balance_end # Zero
    /\ RLt(buy_df[2].house_value_end, buy_df[3].house_value_end)

-----------------------------------------------------------------------------
\* C13: the tax-authority valuations are revalued only after a year's record
\* is computed: year 1 is taxed on the input valuations, year y on the input
\* valuation * (1 + annual_revaluation_rate)^(y-1); land_tax(y) = 0.8 * land
\* valuation(y) * land_tax_rate; neither tax depends on the house
\* appreciation rate or the market value of the house.
C13_Valuation(base, y) == Compound(base, inputs.buy.annual_revaluation_rate, y - 1)

C13_RunningValuations ==
    BuyDone =>
        \A y \in 1..AnalysisYears :
            /\ buy_df[y].property_value_tax =
                   C8_Marginal(
                       RMul(Rat(4, 5),
                            C13_Valuation(inputs.buy.tax_authority_property_value, y)),
                       inputs.buy.property_value_tax_rate_below_9200000,
                       inputs.buy.property_value_tax_rate_above_9200000)
            /\ buy_df[y].land_tax =
                   RMul(RMul(Rat(4, 5),
                             C13_Valuation(inputs.buy.tax_authority_land_value, y)),
                        inputs.buy.land_tax_rate)

\* C13 witness: a series of several years with revaluation and with house
\* appreciation, in which both taxes rise from year to year while the house's
\* market value follows its own rate.
C13_Witness ==
    /\ BuyDone
    /\ AnalysisYears >= 3
    /\ inputs.buy.annual_revaluation_rate # Zero
    /\ inputs.general.house_appreciation_rate # Zero
    /\ RLt(buy_df[1].land_tax, buy_df[2].land_tax)
    /\ RLt(buy_df[2].land_tax, buy_df[3].land_tax)
    /\ RLt(buy_df[1].property_value_tax, buy_df[2].property_value_tax)

\* A series whose house appreciates while the valuations stay as entered: the
\* taxes are the same in every year.
C13_AppreciationWithoutRevaluation ==
    /\ BuyDone
    /\ AnalysisYears >= 2
    /\ inputs.buy.annual_revaluation_rate = Zero
    /\ inputs.general.house_appreciation_rate # Zero
    /\ buy_df[1].land_tax = buy_df[2].land_tax
    /\ buy_df[1].property_value_tax = buy_df[2].property_value_tax

-----------------------------------------------------------------------------
\* C14: in every yearly buy record total_outflow is the sum of nine
\* components: the interest_paid field, which holds the year's gross interest
\* * (1 - interest_deduction_rate), principal_paid, property_value_tax,
\* land_tax, and insurance, maintenance, renovations, community_ownership_cost
\* and car_lease, each base * (1 + inflation_rate)^(year-1), the community fee
\* and the car lease being taken times 12 before the escalation; the closing
\* costs and the downpayment are in no year's outflow, and with a zero loan
\* the interest and principal components are 0 in every year.
C14_GrossInterest(y) ==
    LET last == IF 12 * y <= Len(monthly_df) THEN 12 * y ELSE Len(monthly_df)
    IN  C3_MonthSum("interest_paid", 12 * (y - 1) + 1, last)

C14_Escalated(base, y) == Compound(base, inputs.general.inflation_rate, y - 1)

C14_NineComponents(rec) ==
    RAdd(RAdd(RAdd(RAdd(RAdd(RAdd(RAdd(RAdd(
        rec.interest_paid, rec.principal_paid), rec.property_value_tax),
        rec.land_tax), rec.insurance), rec.maintenance), rec.renovations),
        rec.community_ownership_cost), rec.car_lease)

C14_TotalOutflow ==
    BuyDone =>
        \A y \in 1..AnalysisYears :
            LET rec == buy_df[y]
            IN  /\ rec.total_outflow = C14_NineComponents(rec)
                /\ rec.interest_paid =
                       RMul(C14_GrossInterest(y),
                            RSub(One, inputs.buy.interest_deduction_rate))
                /\ rec.insurance = C14_Escalated(inputs.buy.base_insurance, y)
                /\ rec.maintenance = C14_Escalated(inputs.buy.base_maintenance, y)
                /\ rec.renovations = C14_Escalated(inputs.buy.base_renovations, y)
                /\ rec.community_ownership_cost =
                       C14_Escalated(RMul(Int2Rat(12), inputs.buy.community_ownership_cost), y)
                /\ rec.car_lease =
                       C14_Escalated(RMul(Int2Rat(12), inputs.buy.monthly_car_lease), y)
                /\ Loan = Zero =>
                       (rec.interest_paid = Zero /\ rec.principal_paid = Zero)

\* C14 witness: a series of several years under inflation, with a partly
\* deducted interest and a principal in the first year's outflow.
C14_Witness ==
    /\ BuyDone
    /\ AnalysisYears >= 3
    /\ inputs.general.inflation_rate # Zero
    /\ inputs.buy.interest_deduction_rate # Zero
    /\ buy_df[1].interest_paid # Zero
    /\ buy_df[1].principal_paid # Zero
    /\ RLt(buy_df[2].car_lease, buy_df[3].car_lease)

\* A completed buy series without a loan: nothing of the mortgage is in any
\* year's outflow.
C14_ZeroLoanRun ==
    /\ BuyDone
    /\ Loan = Zero
    /\ inputs.buy.mortgage_rate # Zero
    /\ \A y \in 1..AnalysisYears : buy_df[y].principal_paid = Zero

=============================================================================
